---- MODULE Spec2Model ----
(***************************************************************************)
(* A model of pyteal's ABI Router (pyteal/ast/router.py): the call         *)
(* configuration conditions, the bare-call trees, the selector table and   *)
(* the two ASTBuilders, with the transactions the built trees dispatch.    *)
(***************************************************************************)
EXTENDS Integers, Sequences, FiniteSets, TLC

VARIABLES
    constructed,             \* FALSE until Router.__init__ has run
    router_name,             \* Router.name
    bare_calls,              \* the bare_calls argument of Router.__init__
    approval_ast,            \* Router.approval_ast.conditions_n_branches
    clear_state_ast,         \* Router.clear_state_ast.conditions_n_branches
    method_sig_to_selector,  \* ordered dict: sequence of <<signature, selector>>
    method_selector_to_sig,  \* ordered dict: sequence of <<selector, signature>>
    registered,              \* history: the successful add_method_handler calls
    last,                    \* the last operation: its arguments and its outcome
    mc,                      \* condition specification: the MethodConfig examined
    cond,                    \* condition specification: the condition derived from mc
    wrap_call,               \* wrapping specification: the arguments of wrap_handler
    wrapped,                 \* wrapping specification: what wrap_handler returned
    bca,                     \* bare-call specification: the BareCallActions examined
    construction,            \* bare-call specification: what its construction returned
    method_return            \* method-return specification: the MethodReturn and its lowering

routerVars == <<constructed, router_name, bare_calls, approval_ast, clear_state_ast,
                method_sig_to_selector, method_selector_to_sig, registered, last>>

condVars == <<mc, cond>>

wrapVars == <<wrap_call, wrapped>>

bareVars == <<bca, construction>>

pureVars == <<condVars, wrapVars, bareVars, method_return>>

vars == <<routerVars, pureVars>>

-----------------------------------------------------------------------------
(* Bounds of the model *)

\* application ids of the transactions examined: 0 (creation) .. MaxAppId
MaxAppId == 1

\* number of application arguments of the transactions examined: 0 .. MaxArgs
MaxArgs == 1

\* declared parameters of the typed subroutines wrapped: 0 .. MaxParams
MaxParams == 17

-----------------------------------------------------------------------------
(* CallConfig and OnComplete *)

NEVER == 0

CALL == 1

CREATE == 2

ALL == 3

CallConfig == {NEVER, CALL, CREATE, ALL}

\* an IntFlag value outside the four named ones, as CallConfig(4) builds
OutOfScope == ALL + 1

\* the on-completion values an approval program can see, and the one a
\* clear-state program sees
ApprovalOnCompletes == {"NoOp", "OptIn", "CloseOut", "UpdateApplication", "DeleteApplication"}

OnComplete == ApprovalOnCompletes \cup {"ClearState"}

\* the dataclass fields of MethodConfig and BareCallActions, as astuple/fields see them
MethodConfigFields == {"no_op", "opt_in", "close_out", "clear_state",
                       "update_application", "delete_application"}

MethodConfig(no, oi, co, cs, ua, da) ==
    [no_op |-> no, opt_in |-> oi, close_out |-> co, clear_state |-> cs,
     update_application |-> ua, delete_application |-> da]

DefaultMethodConfig == MethodConfig(CALL, NEVER, NEVER, NEVER, NEVER, NEVER)

is_never_of_approval_fields(c) ==
    \A f \in MethodConfigFields \ {"clear_state"} : c[f] = NEVER

is_never(c) == \A f \in MethodConfigFields : c[f] = NEVER

arc4_compliant == MethodConfig(ALL, ALL, ALL, ALL, ALL, ALL)

is_arc4_compliant(c) == c = arc4_compliant

-----------------------------------------------------------------------------
(* Conditions: the Python ints 0 and 1, or an expression over the          *)
(* transaction.  A raised TealInternalError is the value Raised.           *)

Const(v) == [kind |-> "int", val |-> v]

Raised == [kind |-> "raise", val |-> 0]

AppIdNeq0 == [kind |-> "application_id != 0", val |-> 0]

AppIdEq0 == [kind |-> "application_id == 0", val |-> 0]

IsExpr(c) == c.kind \notin {"int", "raise"}

condition_under_config(cc) ==
    CASE cc = NEVER  -> Const(0)
      [] cc = CALL   -> AppIdNeq0
      [] cc = CREATE -> AppIdEq0
      [] cc = ALL    -> Const(1)
      [] OTHER       -> Raised

\* a Python dict literal, kept in insertion order: a key that is already
\* present keeps its position and takes the new value
DictPut(d, k, v) ==
    IF \E i \in 1..Len(d) : d[i][1] = k
    THEN [i \in 1..Len(d) |-> IF d[i][1] = k THEN <<k, v>> ELSE d[i]]
    ELSE Append(d, <<k, v>>)

DictHas_nothing(d, k) == FALSE

DictHas(d, k) == \E i \in 1..Len(d) : d[i][1] = k

DictGet_first(d, k) == d[1][2]

DictGet(d, k) == d[CHOOSE i \in 1..Len(d) : d[i][1] = k][2]


DictKeys(d) == [i \in 1..Len(d) |-> d[i][1]]

config_oc_pairs(c) ==
    DictPut(DictPut(DictPut(DictPut(DictPut(<<>>,
        c.no_op, "NoOp"),
        c.opt_in, "OptIn"),
        c.close_out, "CloseOut"),
        c.update_application, "UpdateApplication"),
        c.delete_application, "DeleteApplication")

\* one term of the Or: on_completion == oc, And-ed with guard unless the
\* guard is the int 1
OnCompletionTerm(oc, guard) == [oc |-> oc, guard |-> guard]

RECURSIVE cond_list(_, _)
cond_list(d, i) ==
    IF i > Len(d) THEN <<>>
    ELSE LET config == d[i][1]
             config_cond == condition_under_config(config)
             rest == cond_list(d, i + 1)
         IN  IF config_cond = Const(0) THEN rest
             ELSE <<OnCompletionTerm(d[i][2], config_cond)>> \o rest

approval_cond_any_all(c) ==
    LET d == config_oc_pairs(c)
    IN  IF \A i \in 1..Len(d) : d[i][1] = NEVER THEN Const(0)
        ELSE IF \E i \in 1..Len(d) : d[i][1] = ALL THEN Const(1)
        ELSE IF \E i \in 1..Len(d) : condition_under_config(d[i][1]) = Raised
             THEN Raised
             ELSE [kind |-> "Or", val |-> 0, terms |-> cond_list(d, 1)]

approval_cond(c) ==
    LET d == config_oc_pairs(c)
    IN  IF \A i \in 1..Len(d) : d[i][1] = NEVER THEN Const(0)
        ELSE IF \A i \in 1..Len(d) : d[i][1] = ALL THEN Const(1)
        ELSE IF \E i \in 1..Len(d) : condition_under_config(d[i][1]) = Raised
             THEN Raised
             ELSE [kind |-> "Or", val |-> 0, terms |-> cond_list(d, 1)]

clear_state_cond_of_no_op(c) == condition_under_config(c.no_op)

clear_state_cond_as_approval(c) == approval_cond(c)

clear_state_cond(c) == condition_under_config(c.clear_state)

-----------------------------------------------------------------------------
(* Transactions, and the value of a condition for a transaction *)

Txn(n, a0, oc, id) ==
    [num_app_args |-> n, arg0 |-> a0, on_completion |-> oc, application_id |-> id]

EvalGuard(g, txn) ==
    CASE g.kind = "int" -> g.val = 1
      [] g.kind = "application_id != 0" -> txn.application_id # 0
      [] g.kind = "application_id == 0" -> txn.application_id = 0

EvalCond(c, txn) ==
    CASE c.kind = "int" -> c.val = 1
      [] c.kind = "application_id != 0" -> txn.application_id # 0
      [] c.kind = "application_id == 0" -> txn.application_id = 0
      [] c.kind = "Or" ->
            \E i \in 1..Len(c.terms) :
                /\ txn.on_completion = c.terms[i].oc
                /\ EvalGuard(c.terms[i].guard, txn)
      [] c.kind = "And" -> txn.on_completion = c.oc /\ EvalGuard(c.guard, txn)
      [] c.kind = "application_args.length == 0" -> txn.num_app_args = 0
      [] c.kind = "application_args[0] == MethodSignature" ->
            txn.num_app_args > 0 /\ txn.arg0 = c.selector

-----------------------------------------------------------------------------
(* Handlers and ASTBuilder.wrap_handler *)

METHOD_ARG_NUM_LIMIT == 15

NoHandler == [kind |-> "None"]

\* a plain expression: its type and whether it ends control flow
ExprHandler(type, ret) ==
    [kind |-> "Expr", name |-> "", type_of |-> type, argument_count |-> 0,
     abi_args |-> 0, has_return |-> ret]

\* a Subroutine (SubroutineFnWrapper)
SubroutineHandler(name, type, n) ==
    [kind |-> "SubroutineFnWrapper", name |-> name, type_of |-> type,
     argument_count |-> n, abi_args |-> 0, has_return |-> FALSE]

\* an ABIReturnSubroutine with n parameters of which a are ABI typed;
\* type is "void" or the name of the returned ABI type
ABIHandler(name, type, n, a) ==
    [kind |-> "ABIReturnSubroutine", name |-> name, type_of |-> type,
     argument_count |-> n, abi_args |-> a, has_return |-> FALSE]

\* something that is none of the three (falls to `case _`)
OtherHandler == [kind |-> "other", name |-> "", type_of |-> "none",
                 argument_count |-> 0, abi_args |-> 0, has_return |-> FALSE]

is_abi_routable(h) == h.abi_args = h.argument_count

\* the declared ABI type of parameter i is identified by i
expected_arg_types(h) == [i \in 1..h.argument_count |-> i]

Step(op, a, b) == [op |-> op, a |-> a, b |-> b]

Approve == Step("Approve", 0, <<>>)

Wrapped(steps) == [err |-> "none", body |-> steps]

WrapError(e) == [err |-> e, body |-> <<>>]

arg_type_specs_split_at_limit(h) ==
    LET types == expected_arg_types(h)
    IN  IF h.argument_count > METHOD_ARG_NUM_LIMIT
        THEN Append([i \in 1..METHOD_ARG_NUM_LIMIT |-> <<types[i]>>],
                    SubSeq(types, METHOD_ARG_NUM_LIMIT + 1, Len(types)))
        ELSE [i \in 1..Len(types) |-> <<types[i]>>]

\* the logical slots: each slot is the sequence of parameters it carries
arg_type_specs(h) ==
    LET types == expected_arg_types(h)
    IN  IF h.argument_count > METHOD_ARG_NUM_LIMIT
        THEN Append([i \in 1..(METHOD_ARG_NUM_LIMIT - 1) |-> <<types[i]>>],
                    SubSeq(types, METHOD_ARG_NUM_LIMIT, Len(types)))
        ELSE [i \in 1..Len(types) |-> <<types[i]>>]

\* slot i (1-based here, i - 1 in the code) is decoded from application
\* argument (i - 1) + 1
decode_instructions(h) ==
    LET slots == arg_type_specs(h)
    IN  [i \in 1..Len(slots) |-> Step("decode", (i - 1) + 1, slots[i])]

de_tuple_instructions(h) ==
    LET types == expected_arg_types(h)
        tuple_arg_type_specs == SubSeq(types, METHOD_ARG_NUM_LIMIT, Len(types))
    IN  IF h.argument_count > METHOD_ARG_NUM_LIMIT
        THEN [i \in 1..Len(tuple_arg_type_specs) |->
                 Step("store_into", i - 1, <<tuple_arg_type_specs[i]>>)]
        ELSE <<>>

\* the types of the placeholders handed to the subroutine
arg_abi_vars(h) ==
    LET slots == arg_type_specs(h)
        types == expected_arg_types(h)
    IN  IF h.argument_count > METHOD_ARG_NUM_LIMIT
        THEN [i \in 1..(Len(slots) - 1) |-> slots[i][1]]
                 \o SubSeq(types, METHOD_ARG_NUM_LIMIT, Len(types))
        ELSE [i \in 1..Len(slots) |-> slots[i][1]]

wrap_handler_log_before_store(is_method_call, h) ==
    IF ~is_method_call
    THEN CASE h.kind = "Expr" ->
                IF h.type_of # "none" THEN WrapError("bare appcall handler should be TealType.none")
                ELSE IF h.has_return THEN Wrapped(<<Step("handler", 0, <<>>)>>)
                ELSE Wrapped(<<Step("handler", 0, <<>>), Approve>>)
           [] h.kind = "SubroutineFnWrapper" ->
                IF h.type_of # "none" THEN WrapError("subroutine call should be returning TealType.none")
                ELSE IF h.argument_count # 0 THEN WrapError("subroutine call should take 0 arg for bare-app call")
                ELSE Wrapped(<<Step("call", 0, <<>>), Approve>>)
           [] h.kind = "ABIReturnSubroutine" ->
                IF h.type_of # "void" THEN WrapError("abi-returning subroutine call should be returning void")
                ELSE IF h.argument_count # 0 THEN WrapError("abi-returning subroutine call should take 0 arg for bare-app call")
                ELSE Wrapped(<<Step("call", 0, <<>>), Approve>>)
           [] OTHER -> WrapError("bare appcall can only accept: none type Expr, or Subroutine/ABIReturnSubroutine with none return and no arg")
    ELSE IF h.kind # "ABIReturnSubroutine"
         THEN WrapError("method call should be only registering ABIReturnSubroutine")
         ELSE IF ~is_abi_routable(h)
         THEN WrapError("method call ABIReturnSubroutine is not routable")
         ELSE IF h.type_of = "void"
         THEN Wrapped(decode_instructions(h) \o de_tuple_instructions(h)
                      \o <<Step("call", 0, arg_abi_vars(h)), Approve>>)
         ELSE Wrapped(decode_instructions(h) \o de_tuple_instructions(h)
                      \o <<Step("call", 0, arg_abi_vars(h)),
                           Step("MethodReturn", 0, <<>>),
                           Step("store_into_output", 0, <<>>),
                           Approve>>)

wrap_handler_args_checked_first(is_method_call, h) ==
    IF ~is_method_call
    THEN CASE h.kind = "Expr" ->
                IF h.type_of # "none" THEN WrapError("bare appcall handler should be TealType.none")
                ELSE IF h.has_return THEN Wrapped(<<Step("handler", 0, <<>>)>>)
                ELSE Wrapped(<<Step("handler", 0, <<>>), Approve>>)
           [] h.kind = "SubroutineFnWrapper" ->
                IF h.argument_count # 0 THEN WrapError("subroutine call should take 0 arg for bare-app call")
                ELSE IF h.type_of # "none" THEN WrapError("subroutine call should be returning TealType.none")
                ELSE Wrapped(<<Step("call", 0, <<>>), Approve>>)
           [] h.kind = "ABIReturnSubroutine" ->
                IF h.type_of # "void" THEN WrapError("abi-returning subroutine call should be returning void")
                ELSE IF h.argument_count # 0 THEN WrapError("abi-returning subroutine call should take 0 arg for bare-app call")
                ELSE Wrapped(<<Step("call", 0, <<>>), Approve>>)
           [] OTHER -> WrapError("bare appcall can only accept: none type Expr, or Subroutine/ABIReturnSubroutine with none return and no arg")
    ELSE IF h.kind # "ABIReturnSubroutine"
         THEN WrapError("method call should be only registering ABIReturnSubroutine")
         ELSE IF ~is_abi_routable(h)
         THEN WrapError("method call ABIReturnSubroutine is not routable")
         ELSE IF h.type_of = "void"
         THEN Wrapped(decode_instructions(h) \o de_tuple_instructions(h)
                      \o <<Step("call", 0, arg_abi_vars(h)), Approve>>)
         ELSE Wrapped(decode_instructions(h) \o de_tuple_instructions(h)
                      \o <<Step("call", 0, arg_abi_vars(h)),
                           Step("store_into_output", 0, <<>>),
                           Step("MethodReturn", 0, <<>>),
                           Approve>>)

wrap_handler(is_method_call, h) ==
    IF ~is_method_call
    THEN CASE h.kind = "Expr" ->
                IF h.type_of # "none" THEN WrapError("bare appcall handler should be TealType.none")
                ELSE IF h.has_return THEN Wrapped(<<Step("handler", 0, <<>>)>>)
                ELSE Wrapped(<<Step("handler", 0, <<>>), Approve>>)
           [] h.kind = "SubroutineFnWrapper" ->
                IF h.type_of # "none" THEN WrapError("subroutine call should be returning TealType.none")
                ELSE IF h.argument_count # 0 THEN WrapError("subroutine call should take 0 arg for bare-app call")
                ELSE Wrapped(<<Step("call", 0, <<>>), Approve>>)
           [] h.kind = "ABIReturnSubroutine" ->
                IF h.type_of # "void" THEN WrapError("abi-returning subroutine call should be returning void")
                ELSE IF h.argument_count # 0 THEN WrapError("abi-returning subroutine call should take 0 arg for bare-app call")
                ELSE Wrapped(<<Step("call", 0, <<>>), Approve>>)
           [] OTHER -> WrapError("bare appcall can only accept: none type Expr, or Subroutine/ABIReturnSubroutine with none return and no arg")
    ELSE IF h.kind # "ABIReturnSubroutine"
         THEN WrapError("method call should be only registering ABIReturnSubroutine")
         ELSE IF ~is_abi_routable(h)
         THEN WrapError("method call ABIReturnSubroutine is not routable")
         ELSE IF h.type_of = "void"
         THEN Wrapped(decode_instructions(h) \o de_tuple_instructions(h)
                      \o <<Step("call", 0, arg_abi_vars(h)), Approve>>)
         ELSE Wrapped(decode_instructions(h) \o de_tuple_instructions(h)
                      \o <<Step("call", 0, arg_abi_vars(h)),
                           Step("store_into_output", 0, <<>>),
                           Step("MethodReturn", 0, <<>>),
                           Approve>>)

-----------------------------------------------------------------------------
(* OnCompleteAction, BareCallActions and CondNode *)

OnCompleteAction(create, call) == [on_create |-> create, on_call |-> call]

never == OnCompleteAction(NoHandler, NoHandler)

create_only(f) == OnCompleteAction(f, NoHandler)

call_only(f) == OnCompleteAction(NoHandler, f)

always(f) == OnCompleteAction(f, f)

\* Python truthiness of an Optional handler
Present(f) == f # NoHandler

OnCompleteAction_is_empty(a) == ~(Present(a.on_call) \/ Present(a.on_create))

BareCallActions(no, oi, co, cs, ua, da) ==
    [no_op |-> no, opt_in |-> oi, close_out |-> co, clear_state |-> cs,
     update_application |-> ua, delete_application |-> da]

NoBareCalls == [kind |-> "None"]

BareCallActions_is_empty(b) == \A f \in MethodConfigFields : OnCompleteAction_is_empty(b[f])

CondNode(condition, branch) == [condition |-> condition, branch |-> branch]

\* branch bodies: a Seq of steps, preceded by Assert(cond) when assert is
\* <<cond>>; or a Cond over nodes
SeqBranch(assert, body) == [kind |-> "Seq", assert |-> assert, body |-> body, nodes |-> <<>>]

CondBranch(nodes) == [kind |-> "Cond", assert |-> <<>>, body |-> <<>>, nodes |-> nodes]

OnCompletionAnd(oc, guard) == [kind |-> "And", val |-> 0, oc |-> oc, guard |-> guard]

\* the result of a construction: an error, None, or the Cond over nodes
Built(nodes) == [err |-> "none", none |-> FALSE, nodes |-> nodes]

BuiltNone == [err |-> "none", none |-> TRUE, nodes |-> <<>>]

BuildError(e) == [err |-> e, none |-> FALSE, nodes |-> <<>>]

ActionNodes_one_guard(oca, call_cond, create_cond) ==
    (IF Present(oca.on_call)
     THEN <<CondNode(call_cond, SeqBranch(<<>>, wrap_handler(FALSE, oca.on_call).body))>>
     ELSE <<>>)
    \o
    (IF Present(oca.on_create)
     THEN <<CondNode(call_cond, SeqBranch(<<>>, wrap_handler(FALSE, oca.on_create).body))>>
     ELSE <<>>)

\* the nodes one OnCompleteAction contributes, on_call first; the two guards
\* are passed in
ActionNodes(oca, call_cond, create_cond) ==
    (IF Present(oca.on_call)
     THEN <<CondNode(call_cond, SeqBranch(<<>>, wrap_handler(FALSE, oca.on_call).body))>>
     ELSE <<>>)
    \o
    (IF Present(oca.on_create)
     THEN <<CondNode(create_cond, SeqBranch(<<>>, wrap_handler(FALSE, oca.on_create).body))>>
     ELSE <<>>)

\* the first error wrap_handler raises for an OnCompleteAction, "none" if none
ActionError(oca) ==
    IF Present(oca.on_call) /\ wrap_handler(FALSE, oca.on_call).err # "none"
    THEN wrap_handler(FALSE, oca.on_call).err
    ELSE IF Present(oca.on_create) /\ wrap_handler(FALSE, oca.on_create).err # "none"
    THEN wrap_handler(FALSE, oca.on_create).err
    ELSE "none"

oc_action_pair_in_field_order(b) ==
    << <<"CloseOut", b.close_out>>, <<"DeleteApplication", b.delete_application>>,
       <<"NoOp", b.no_op>>, <<"OptIn", b.opt_in>>,
       <<"UpdateApplication", b.update_application>> >>

oc_action_pair(b) ==
    << <<"NoOp", b.no_op>>, <<"OptIn", b.opt_in>>, <<"CloseOut", b.close_out>>,
       <<"UpdateApplication", b.update_application>>,
       <<"DeleteApplication", b.delete_application>> >>

RECURSIVE approval_nodes(_, _)
approval_nodes(pairs, i) ==
    IF i > Len(pairs) THEN <<>>
    ELSE ActionNodes(pairs[i][2],
                     OnCompletionAnd(pairs[i][1], AppIdNeq0),
                     OnCompletionAnd(pairs[i][1], AppIdEq0))
         \o approval_nodes(pairs, i + 1)

approval_construction_of_six(b) ==
    LET pairs == oc_action_pair(b)
        failing == {i \in 1..Len(pairs) : ActionError(pairs[i][2]) # "none"}
    IN  IF BareCallActions_is_empty(b)
        THEN BuiltNone
        ELSE IF failing # {}
        THEN BuildError(ActionError(pairs[CHOOSE i \in failing : \A j \in failing : i <= j][2]))
        ELSE Built(approval_nodes(pairs, 1))

approval_construction(b) ==
    LET pairs == oc_action_pair(b)
        failing == {i \in 1..Len(pairs) : ActionError(pairs[i][2]) # "none"}
    IN  IF \A i \in 1..Len(pairs) : OnCompleteAction_is_empty(pairs[i][2])
        THEN BuiltNone
        ELSE IF failing # {}
        THEN BuildError(ActionError(pairs[CHOOSE i \in failing : \A j \in failing : i <= j][2]))
        ELSE Built(approval_nodes(pairs, 1))

clear_state_construction(b) ==
    IF OnCompleteAction_is_empty(b.clear_state) THEN BuiltNone
    ELSE IF ActionError(b.clear_state) # "none" THEN BuildError(ActionError(b.clear_state))
    ELSE Built(ActionNodes(b.clear_state, AppIdNeq0, AppIdEq0))

-----------------------------------------------------------------------------
(* Method signatures and selectors *)

NoName == "None"

NoSig == [kind |-> "None"]

\* ABIReturnSubroutine.method_signature: the overriding name if given, else
\* the subroutine's name, with the parameter and return types; it raises
\* for a subroutine that is not routable
method_signature(h, overriding_name) ==
    IF ~is_abi_routable(h) THEN NoSig
    ELSE [name |-> IF overriding_name # NoName THEN overriding_name ELSE h.name,
          args |-> h.argument_count, returns |-> h.type_of]

\* encoding.checksum(bytes(sig))[:4]: a 4-byte digest that is a function of
\* the signature and is not injective ("add" and "mul" collide)
NameDigest(name) ==
    CASE name = "add" -> 1
      [] name = "sub" -> 2
      [] name = "mul" -> 1
      [] OTHER -> 3

checksum4(sig) == NameDigest(sig.name) + 4 * sig.args

\* MethodSignature(sig) evaluates to the selector of sig
ArgsLengthIs0 == [kind |-> "application_args.length == 0", val |-> 0]

WalkInCond(sig) ==
    [kind |-> "application_args[0] == MethodSignature", val |-> 0,
     sig |-> sig, selector |-> checksum4(sig)]

-----------------------------------------------------------------------------
(* ASTBuilder *)

add_method_to_ast_in_front(nodes, sig, c, h) ==
    IF wrap_handler(TRUE, h).err # "none" /\ c # Const(0)
    THEN [err |-> wrap_handler(TRUE, h).err, nodes |-> nodes]
    ELSE IF IsExpr(c)
    THEN [err |-> "none",
          nodes |-> <<CondNode(WalkInCond(sig),
                        SeqBranch(<<c>>, wrap_handler(TRUE, h).body))>> \o nodes]
    ELSE IF c = Const(1)
    THEN [err |-> "none",
          nodes |-> <<CondNode(WalkInCond(sig),
                        SeqBranch(<<>>, wrap_handler(TRUE, h).body))>> \o nodes]
    ELSE [err |-> "none", nodes |-> nodes]

add_method_to_ast_asserting_selector(nodes, sig, c, h) ==
    IF wrap_handler(TRUE, h).err # "none" /\ c # Const(0)
    THEN [err |-> wrap_handler(TRUE, h).err, nodes |-> nodes]
    ELSE IF IsExpr(c)
    THEN [err |-> "none",
          nodes |-> Append(nodes, CondNode(WalkInCond(sig),
                               SeqBranch(<<WalkInCond(sig)>>, wrap_handler(TRUE, h).body)))]
    ELSE IF c = Const(1)
    THEN [err |-> "none",
          nodes |-> Append(nodes, CondNode(WalkInCond(sig),
                               SeqBranch(<<>>, wrap_handler(TRUE, h).body)))]
    ELSE [err |-> "none", nodes |-> nodes]

add_method_to_ast_unguarded(nodes, sig, c, h) ==
    IF wrap_handler(TRUE, h).err # "none" /\ c # Const(0)
    THEN [err |-> wrap_handler(TRUE, h).err, nodes |-> nodes]
    ELSE IF IsExpr(c) \/ c = Const(1)
    THEN [err |-> "none",
          nodes |-> Append(nodes, CondNode(WalkInCond(sig),
                               SeqBranch(<<>>, wrap_handler(TRUE, h).body)))]
    ELSE [err |-> "none", nodes |-> nodes]

\* add_method_to_ast: the error raised ("none" if none) and the node list after
add_method_to_ast(nodes, sig, c, h) ==
    IF IsExpr(c)
    THEN IF wrap_handler(TRUE, h).err # "none"
         THEN [err |-> wrap_handler(TRUE, h).err, nodes |-> nodes]
         ELSE [err |-> "none",
               nodes |-> Append(nodes, CondNode(WalkInCond(sig),
                                    SeqBranch(<<c>>, wrap_handler(TRUE, h).body)))]
    ELSE IF c = Const(1)
    THEN IF wrap_handler(TRUE, h).err # "none"
         THEN [err |-> wrap_handler(TRUE, h).err, nodes |-> nodes]
         ELSE [err |-> "none",
               nodes |-> Append(nodes, CondNode(WalkInCond(sig),
                                    SeqBranch(<<>>, wrap_handler(TRUE, h).body)))]
    ELSE IF c = Const(0)
    THEN [err |-> "none", nodes |-> nodes]
    ELSE [err |-> "Invalid condition input for add_method_to_ast", nodes |-> nodes]

EmptyAST == "ABIRouter: Cannot build program with an empty AST"

program_construction_unchecked(nodes) == Built(nodes)

program_construction(nodes) ==
    IF nodes = <<>> THEN BuildError(EmptyAST) ELSE Built(nodes)

-----------------------------------------------------------------------------
(* Router *)

\* what the last call was given and what it did: the call configuration and
\* the signature computed (add_method_handler), the error raised ("none" if
\* it returned), the signature a collision error names, and what
\* build_program or contract_construct returned
Outcome(op, err, c, sig, other, ap, cl, contract) ==
    [op |-> op, err |-> err, call_configs |-> c, sig |-> sig,
     collided_with |-> other, approval |-> ap, clear |-> cl, contract |-> contract]

\* no sdk_abi.Contract returned
NoContract == [name |-> "", methods |-> <<>>]

NoOutcome == Outcome("none", "none", DefaultMethodConfig, NoSig, NoSig, <<>>, <<>>, NoContract)

\* Router.__init__: the nodes each builder starts with, or the error a
\* bare-call handler raises
RouterInitApproval(b) ==
    IF b # NoBareCalls /\ ~BareCallActions_is_empty(b)
    THEN approval_construction(b)
    ELSE BuiltNone

RouterInitClear_from_approval(b) ==
    IF b # NoBareCalls /\ ~BareCallActions_is_empty(b)
    THEN approval_construction(b)
    ELSE BuiltNone

RouterInitClear(b) ==
    IF b # NoBareCalls /\ ~BareCallActions_is_empty(b)
    THEN clear_state_construction(b)
    ELSE BuiltNone

BareNode(built) ==
    IF built.none THEN <<>> ELSE <<CondNode(ArgsLengthIs0, CondBranch(built.nodes))>>

NotABIReturnSubroutine == "for adding method handler, must be ABIReturnSubroutine"

NotRegistrable == "Only registrable methods may return a method signature"

NeverExecuted == "registered method is never executed"

ReRegistering == "re-registering method detected"

HashCollision == "re-registering method has hash collision"

ScopeExceeding == "CallConfig scope exceeding!"

\* self.method_sig_to_selector[method_signature] = method_selector, and
\* self.method_selector_to_sig[method_selector] = method_signature, each for
\* a key that is not in the dict
record_sig(d, sig, selector) == Append(d, <<sig, selector>>)

record_selector_skipped(d, selector, sig) == d

record_selector(d, selector, sig) == Append(d, <<selector, sig>>)

\* add_method_handler, statement by statement: the error raised and the
\* four collections as the call leaves them
AddResult(err, sig, other, s2sel, sel2s, ap, cl) ==
    [err |-> err, sig |-> sig, collided_with |-> other,
     method_sig_to_selector |-> s2sel, method_selector_to_sig |-> sel2s,
     approval_ast |-> ap, clear_state_ast |-> cl]

add_method_handler(h, overriding_name, call_configs) ==
    LET unchanged(err, sig, other) ==
            AddResult(err, sig, other, method_sig_to_selector,
                      method_selector_to_sig, approval_ast, clear_state_ast)
        method_sig == method_signature(h, overriding_name)
        method_selector == checksum4(method_sig)
        s2sel == record_sig(method_sig_to_selector, method_sig, method_selector)
        sel2s == record_selector(method_selector_to_sig, method_selector, method_sig)
        method_approval_cond == approval_cond(call_configs)
        method_clear_state_cond == clear_state_cond(call_configs)
        ap == add_method_to_ast(approval_ast, method_sig, method_approval_cond, h)
        cl == add_method_to_ast(clear_state_ast, method_sig, method_clear_state_cond, h)
    IN  IF h.kind # "ABIReturnSubroutine"
        THEN unchanged(NotABIReturnSubroutine, NoSig, NoSig)
        ELSE IF method_sig = NoSig
        THEN unchanged(NotRegistrable, NoSig, NoSig)
        ELSE IF is_never(call_configs)
        THEN unchanged(NeverExecuted, method_sig, NoSig)
        ELSE IF DictHas(method_sig_to_selector, method_sig)
        THEN unchanged(ReRegistering, method_sig, NoSig)
        ELSE IF DictHas(method_selector_to_sig, method_selector)
        THEN unchanged(HashCollision, method_sig,
                       DictGet(method_selector_to_sig, method_selector))
        ELSE IF method_approval_cond = Raised \/ method_clear_state_cond = Raised
        THEN AddResult(ScopeExceeding, method_sig, NoSig,
                       s2sel, sel2s, approval_ast, clear_state_ast)
        ELSE IF ap.err # "none"
        THEN AddResult(ap.err, method_sig, NoSig, s2sel, sel2s,
                       approval_ast, clear_state_ast)
        ELSE IF cl.err # "none"
        THEN AddResult(cl.err, method_sig, NoSig, s2sel, sel2s,
                       ap.nodes, clear_state_ast)
        ELSE AddResult("none", method_sig, NoSig, s2sel, sel2s, ap.nodes, cl.nodes)

\* contract_construct: the router's name and the method signatures, in the
\* order of the dict
contract_construct == [name |-> router_name, methods |-> DictKeys(method_sig_to_selector)]

-----------------------------------------------------------------------------
(* The inputs the operations are called with *)

AddHandler == ABIHandler("add", "uint64", 2, 2)

NotRoutableHandler == ABIHandler("sub", "uint64", 2, 1)

PlainSubroutine == SubroutineHandler("mul", "none", 0)

OverridingNames == {NoName, "mul", "div"}

CallConfigChoices ==
    { DefaultMethodConfig,
      arc4_compliant,
      MethodConfig(NEVER, NEVER, NEVER, NEVER, NEVER, NEVER),
      MethodConfig(NEVER, NEVER, NEVER, CALL, NEVER, NEVER),
      MethodConfig(CALL, CALL, NEVER, CREATE, NEVER, NEVER),
      MethodConfig(OutOfScope, NEVER, NEVER, ALL, NEVER, NEVER),
      MethodConfig(CALL, NEVER, NEVER, OutOfScope, NEVER, NEVER) }

\* the add_method_handler calls made: the routable handler under every name
\* and call config, the handlers that are rejected under two call configs
AddCalls ==
    ({AddHandler} \X OverridingNames \X CallConfigChoices)
    \cup ({NotRoutableHandler, PlainSubroutine} \X {NoName}
             \X {DefaultMethodConfig, MethodConfig(NEVER, NEVER, NEVER, NEVER, NEVER, NEVER)})

ApproveExpr == ExprHandler("none", TRUE)

PlainExpr == ExprHandler("none", FALSE)

ValueExpr == ExprHandler("uint64", FALSE)

BareCallChoices ==
    { NoBareCalls,
      BareCallActions(never, never, never, never, never, never),
      BareCallActions(create_only(ApproveExpr), never, never,
                      call_only(ApproveExpr), never, never),
      BareCallActions(never, never, never, always(PlainExpr), never, never),
      BareCallActions(call_only(PlainSubroutine), never, never, never, never, never),
      BareCallActions(always(PlainExpr), always(PlainExpr), always(PlainExpr),
                      always(PlainExpr), always(PlainExpr), always(PlainExpr)),
      BareCallActions(never, call_only(ValueExpr), never, never, never, never) }

-----------------------------------------------------------------------------
(* The router as a state machine *)

RouterNames == {"calculator", "vote"}

\* the Router(name, bare_calls) calls made: every bare_calls choice under
\* one name, and the other name without bare calls
RouterArgs ==
    ({"calculator"} \X BareCallChoices) \cup {<<"vote", NoBareCalls>>}

NoCond == [of |-> "none", value |-> Const(0)]

NoWrapCall == [is_method_call |-> FALSE, handler |-> NoHandler]

NoWrapped == [err |-> "not called", body |-> <<>>]

NoBuilt == [of |-> "none", value |-> BuiltNone]

\* no MethodReturn yet: the argument it holds, the version it was lowered at,
\* the error raised ("none" if none), the minimum version the error names
\* and the operations emitted
NoReturn ==
    [stage |-> "none", arg |-> "", version |-> 0, err |-> "none",
     names_min_version |-> 0, teal |-> <<>>]

\* no Router yet
RouterFresh ==
    /\ constructed = FALSE
    /\ router_name = ""
    /\ bare_calls = NoBareCalls
    /\ approval_ast = <<>>
    /\ clear_state_ast = <<>>
    /\ method_sig_to_selector = <<>>
    /\ method_selector_to_sig = <<>>
    /\ registered = <<>>
    /\ last = NoOutcome

CondIdle == mc = DefaultMethodConfig /\ cond = NoCond

WrapIdle == wrap_call = NoWrapCall /\ wrapped = NoWrapped

BareIdle == bca = NoBareCalls /\ construction = NoBuilt

ReturnIdle == method_return = NoReturn

Init == RouterFresh /\ CondIdle /\ WrapIdle /\ BareIdle /\ ReturnIdle

\* Router(name, bare_calls)
RouterInit(n, b) ==
    /\ ~constructed
    /\ last.op = "none"
    /\ LET ap == RouterInitApproval(b)
           cl == RouterInitClear(b)
           err == IF ap.err # "none" THEN ap.err ELSE cl.err
       IN  /\ constructed' = (err = "none")
           /\ router_name' = n
           /\ bare_calls' = b
           /\ approval_ast' = IF err = "none" THEN BareNode(ap) ELSE <<>>
           /\ clear_state_ast' = IF err = "none" THEN BareNode(cl) ELSE <<>>
           /\ last' = Outcome("Router", err, DefaultMethodConfig, NoSig, NoSig,
                              <<>>, <<>>, NoContract)
    /\ UNCHANGED <<method_sig_to_selector, method_selector_to_sig, registered, pureVars>>

\* Router.add_method_handler(method_call, overriding_name, call_configs)
AddMethodHandler(h, n, c) ==
    /\ constructed
    /\ LET r == add_method_handler(h, n, c)
       IN  /\ method_sig_to_selector' = r.method_sig_to_selector
           /\ method_selector_to_sig' = r.method_selector_to_sig
           /\ approval_ast' = r.approval_ast
           /\ clear_state_ast' = r.clear_state_ast
           /\ registered' = IF r.err = "none"
                            THEN Append(registered, [sig |-> r.sig, call_configs |-> c])
                            ELSE registered
           /\ last' = Outcome("add_method_handler", r.err, c, r.sig,
                              r.collided_with, <<>>, <<>>, NoContract)
    /\ UNCHANGED <<constructed, router_name, bare_calls, pureVars>>

\* Router.contract_construct()
ContractConstruct ==
    /\ constructed
    /\ last' = Outcome("contract_construct", "none", DefaultMethodConfig,
                       NoSig, NoSig, <<>>, <<>>, contract_construct)
    /\ UNCHANGED <<constructed, router_name, bare_calls, approval_ast, clear_state_ast,
                   method_sig_to_selector, method_selector_to_sig, registered, pureVars>>

BuildProgram_consuming ==
    /\ constructed
    /\ LET ap == program_construction(approval_ast)
           cl == program_construction(clear_state_ast)
           err == IF ap.err # "none" THEN ap.err ELSE cl.err
       IN  /\ last' = Outcome("build_program", err, DefaultMethodConfig, NoSig, NoSig,
                              IF err = "none" THEN ap.nodes ELSE <<>>,
                              IF err = "none" THEN cl.nodes ELSE <<>>,
                              IF err = "none" THEN contract_construct ELSE NoContract)
           /\ approval_ast' = <<>>
           /\ clear_state_ast' = <<>>
    /\ UNCHANGED <<constructed, router_name, bare_calls,
                   method_sig_to_selector, method_selector_to_sig, registered, pureVars>>

\* Router.build_program()
BuildProgram ==
    /\ constructed
    /\ LET ap == program_construction(approval_ast)
           cl == program_construction(clear_state_ast)
           err == IF ap.err # "none" THEN ap.err ELSE cl.err
       IN  last' = Outcome("build_program", err, DefaultMethodConfig, NoSig, NoSig,
                           IF err = "none" THEN ap.nodes ELSE <<>>,
                           IF err = "none" THEN cl.nodes ELSE <<>>,
                           IF err = "none" THEN contract_construct ELSE NoContract)
    /\ UNCHANGED <<constructed, router_name, bare_calls, approval_ast, clear_state_ast,
                   method_sig_to_selector, method_selector_to_sig, registered, pureVars>>

Next ==
    \/ \E args \in RouterArgs : RouterInit(args[1], args[2])
    \/ \E call \in AddCalls : AddMethodHandler(call[1], call[2], call[3])
    \/ ContractConstruct
    \/ BuildProgram

Spec == Init /\ [][Next]_vars

-----------------------------------------------------------------------------
(* The conditions of a MethodConfig, for every MethodConfig, and the        *)
(* registration of one method under it on a Router without bare calls       *)

AllMethodConfigs == [MethodConfigFields -> CallConfig]

CondInit ==
    /\ RouterFresh /\ WrapIdle /\ BareIdle /\ ReturnIdle
    /\ mc \in AllMethodConfigs
    /\ cond = NoCond

ApprovalCond ==
    /\ cond' = [of |-> "approval_cond", value |-> approval_cond(mc)]
    /\ UNCHANGED <<routerVars, mc, wrapVars, bareVars, method_return>>

ClearStateCond ==
    /\ cond' = [of |-> "clear_state_cond", value |-> clear_state_cond(mc)]
    /\ UNCHANGED <<routerVars, mc, wrapVars, bareVars, method_return>>

CondNext ==
    \/ ApprovalCond
    \/ ClearStateCond
    \/ RouterInit("calculator", NoBareCalls)
    \/ AddMethodHandler(AddHandler, NoName, mc)

CondSpec == CondInit /\ [][CondNext]_vars

-----------------------------------------------------------------------------
(* The transactions a built program is run on *)

Selectors == {checksum4(method_signature(AddHandler, n)) : n \in OverridingNames}

\* the first application argument: a selector of the model, or another value
Arg0Values == Selectors \cup {0}

ApprovalTxns ==
    {Txn(n, a, oc, id) : n \in 0..MaxArgs, a \in Arg0Values,
                         oc \in ApprovalOnCompletes, id \in 0..MaxAppId}

ClearStateTxns ==
    {Txn(n, a, "ClearState", id) : n \in 0..MaxArgs, a \in Arg0Values, id \in 0..MaxAppId}

\* the MethodConfig field of an on-completion value
FieldOf(oc) ==
    CASE oc = "NoOp" -> "no_op"
      [] oc = "OptIn" -> "opt_in"
      [] oc = "CloseOut" -> "close_out"
      [] oc = "ClearState" -> "clear_state"
      [] oc = "UpdateApplication" -> "update_application"
      [] oc = "DeleteApplication" -> "delete_application"

\* what a CallConfig permits: ALL always, CALL on an existing application,
\* CREATE on creation, NEVER never
Permits(cc, txn) ==
    \/ cc = ALL
    \/ cc = CALL /\ txn.application_id # 0
    \/ cc = CREATE /\ txn.application_id = 0

ApprovalFields == {FieldOf(oc) : oc \in ApprovalOnCompletes}

NoBareCallsGiven == bare_calls = NoBareCalls \/ BareCallActions_is_empty(bare_calls)

-----------------------------------------------------------------------------
(* Claims *)

\* C1: approval_cond() holds for a transaction exactly when the CallConfig
\* of the transaction's own on-completion action permits the transaction,
\* for every MethodConfig over NEVER, CALL, CREATE, ALL.
C1_ApprovalCondIsPerActionOr ==
    cond.of = "approval_cond" =>
        \A txn \in ApprovalTxns :
            EvalCond(cond.value, txn) <=> Permits(mc[FieldOf(txn.on_completion)], txn)

\* C2 as stated: on a Router without bare calls, build_program after exactly
\* one successful add_method_handler succeeds with a non-empty approval tree.
C2_BuildSucceedsAfterOneRegistration ==
    (last.op = "build_program" /\ NoBareCallsGiven /\ Len(registered) = 1) =>
        (last.err = "none" /\ last.approval # <<>>)

\* C2 amended: on a Router without bare calls, build_program after exactly
\* one successful add_method_handler succeeds with a non-empty approval tree
\* exactly when the registered call config has a non-NEVER clear_state field
\* and a non-NEVER field among the five others; otherwise (the default
\* config included) it fails with the empty-program error.
C2_BuildAfterOneRegistration ==
    (last.op = "build_program" /\ NoBareCallsGiven /\ Len(registered) = 1) =>
        LET c == registered[1].call_configs
            both == /\ c.clear_state # NEVER
                    /\ \E f \in ApprovalFields : c[f] # NEVER
        IN  /\ both => (last.err = "none" /\ last.approval # <<>> /\ last.clear # <<>>)
            /\ ~both => last.err = EmptyAST

C2_Witness ==
    /\ last.op = "build_program" /\ NoBareCallsGiven /\ Len(registered) = 1
    /\ registered[1].call_configs = arc4_compliant
    /\ last.err = "none"

\* C3: an add_method_handler call that fails leaves the selector table
\* (both mappings) and both ASTBuilders as they were before the call.
C3_FailedAddChangesNothing ==
    [][(last'.op = "add_method_handler" /\ last'.err # "none") =>
          UNCHANGED <<method_sig_to_selector, method_selector_to_sig,
                      approval_ast, clear_state_ast>>]_vars

InTable(d, k) == \E i \in DOMAIN d : d[i][1] = k

AllNever(c) ==
    /\ c.no_op = NEVER /\ c.opt_in = NEVER /\ c.close_out = NEVER
    /\ c.clear_state = NEVER
    /\ c.update_application = NEVER /\ c.delete_application = NEVER

\* the call just made was given a signature the table already held
DuplicateCall ==
    /\ last'.op = "add_method_handler"
    /\ last'.sig # NoSig
    /\ InTable(method_sig_to_selector, last'.sig)

\* C4 as stated: add_method_handler with a signature that is already in the
\* selector table fails with the duplicate-registration error, whatever the
\* call config.
C4_DuplicateFailsAsDuplicate ==
    [][DuplicateCall => last'.err = ReRegistering]_vars

\* C4 amended: add_method_handler with a signature that is already in the
\* selector table fails and leaves the table as it was; the error is the
\* duplicate-registration error for every call config with a non-NEVER
\* field, and the never-executed error (raised first) for the config whose
\* six fields are NEVER.
C4_DuplicateFails ==
    [][DuplicateCall =>
          /\ last'.err = IF AllNever(last'.call_configs) THEN NeverExecuted ELSE ReRegistering
          /\ UNCHANGED <<method_sig_to_selector, method_selector_to_sig>>]_vars

C4_Witness ==
    /\ last.op = "add_method_handler"
    /\ last.err = ReRegistering
    /\ \E i \in DOMAIN registered :
          /\ registered[i].sig = last.sig
          /\ registered[i].call_configs # last.call_configs

\* the call just made passed the handler and the never-executed checks with
\* a new signature whose selector the table already held
CollidingCall ==
    /\ last'.op = "add_method_handler"
    /\ last'.sig # NoSig
    /\ ~AllNever(last'.call_configs)
    /\ ~InTable(method_sig_to_selector, last'.sig)
    /\ InTable(method_selector_to_sig, checksum4(last'.sig))

\* the signature registered first among those with selector x
FirstRegisteredWith(x) ==
    LET first == CHOOSE i \in DOMAIN method_sig_to_selector :
                    /\ method_sig_to_selector[i][2] = x
                    /\ \A j \in DOMAIN method_sig_to_selector :
                          method_sig_to_selector[j][2] = x => i <= j
    IN  method_sig_to_selector[first][1]

TableInverse(s2sel, sel2s) ==
    /\ Len(s2sel) = Len(sel2s)
    /\ \A i \in DOMAIN s2sel : \E j \in DOMAIN sel2s :
          sel2s[j] = <<s2sel[i][2], s2sel[i][1]>>
    /\ \A j \in DOMAIN sel2s : \E i \in DOMAIN s2sel :
          s2sel[i] = <<sel2s[j][2], sel2s[j][1]>>
    /\ \A i, j \in DOMAIN s2sel : s2sel[i][1] = s2sel[j][1] => i = j
    /\ \A i, j \in DOMAIN sel2s : sel2s[i][1] = sel2s[j][1] => i = j

IsPrefix(d, e) == Len(d) <= Len(e) /\ \A i \in DOMAIN d : e[i] = d[i]

\* C6: after every operation the two selector-table mappings are inverses of
\* each other, and every entry that was there before the operation is still
\* there, unchanged.
C6_SelectorTableInverse ==
    [][/\ TableInverse(method_sig_to_selector', method_selector_to_sig')
       /\ IsPrefix(method_sig_to_selector, method_sig_to_selector')
       /\ IsPrefix(method_selector_to_sig, method_selector_to_sig')]_vars

C6_Witness ==
    /\ Len(method_sig_to_selector) = 2
    /\ Len(registered) = 1
    /\ last.op = "build_program"

\* C7: add_method_handler fails with the never-executed error exactly for
\* the call configs whose six fields are all NEVER.
C7_NeverExecutedIffAllNever ==
    last.op = "add_method_handler" =>
        /\ last.err = NeverExecuted => AllNever(last.call_configs)
        /\ (last.sig # NoSig /\ AllNever(last.call_configs)) => last.err = NeverExecuted

C7_Witness ==
    /\ last.op = "add_method_handler"
    /\ last.err = NeverExecuted
    /\ Len(registered) = 1

\* C8: build_program fails with the empty-program error exactly when the
\* approval or the clear-state ASTBuilder holds no node, and succeeds
\* otherwise.
C8_BuildFailsIffABuilderIsEmpty ==
    last.op = "build_program" =>
        /\ last.err = EmptyAST <=> (approval_ast = <<>> \/ clear_state_ast = <<>>)
        /\ last.err # EmptyAST => (last.err = "none" /\ last.approval # <<>> /\ last.clear # <<>>)
        /\ (NoBareCallsGiven /\ method_sig_to_selector = <<>>) => last.err = EmptyAST

C8_Witness ==
    /\ last.op = "build_program"
    /\ last.err = EmptyAST
    /\ approval_ast # <<>>
    /\ clear_state_ast = <<>>

\* the bare-call node is installed in the approval (clear-state) builder
BareApprovalInstalled ==
    /\ constructed
    /\ bare_calls # NoBareCalls
    /\ \E f \in ApprovalFields : Present(bare_calls[f].on_call) \/ Present(bare_calls[f].on_create)

BareClearInstalled ==
    /\ constructed
    /\ bare_calls # NoBareCalls
    /\ Present(bare_calls.clear_state.on_call) \/ Present(bare_calls.clear_state.on_create)

HasApprovalNode(r) == \E f \in ApprovalFields : r.call_configs[f] # NEVER

HasClearNode(r) == r.call_configs.clear_state # NEVER

\* nodes is the bare-call node (if installed) followed by one method node
\* per element of methods, in that order
NodesAre(nodes, bare, methods) ==
    LET off == IF bare THEN 1 ELSE 0
    IN  /\ Len(nodes) = off + Len(methods)
        /\ bare => nodes[1].condition = ArgsLengthIs0
        /\ \A i \in DOMAIN methods :
              /\ nodes[off + i].condition.kind = "application_args[0] == MethodSignature"
              /\ nodes[off + i].condition.sig = methods[i].sig

\* C9: in both ASTBuilders the node list is the bare-call node (if one was
\* installed) followed by the method nodes in the order of their successful
\* registration, and build_program returns the nodes in that order.
C9_NodesInRegistrationOrder ==
    /\ NodesAre(approval_ast, BareApprovalInstalled, SelectSeq(registered, HasApprovalNode))
    /\ NodesAre(clear_state_ast, BareClearInstalled, SelectSeq(registered, HasClearNode))
    /\ (last.op = "build_program" /\ last.err = "none") =>
          /\ last.approval = approval_ast
          /\ last.clear = clear_state_ast

C9_Witness ==
    /\ last.op = "build_program"
    /\ last.err = "none"
    /\ Len(last.approval) = 3
    /\ Len(last.clear) = 2
    /\ Len(registered) = 2

Matching(nodes, txn) == {i \in DOMAIN nodes : EvalCond(nodes[i].condition, txn)}

\* at most one node of the tree matches txn, also inside a bare-call subtree
AtMostOneBranch(nodes, txn) ==
    /\ Cardinality(Matching(nodes, txn)) <= 1
    /\ \A i \in DOMAIN nodes :
          nodes[i].branch.kind = "Cond" =>
              Cardinality(Matching(nodes[i].branch.nodes, txn)) <= 1

\* C10: in the approval and the clear-state tree of every router state, the
\* conditions of distinct nodes are mutually exclusive for every transaction,
\* and so are the guards inside the bare-call subtree.
C10_AtMostOneBranch ==
    /\ \A txn \in ApprovalTxns : AtMostOneBranch(approval_ast, txn)
    /\ \A txn \in ClearStateTxns : AtMostOneBranch(clear_state_ast, txn)

C10_Witness ==
    /\ Len(approval_ast) = 3
    /\ Len(approval_ast[1].branch.nodes) = 10
    /\ Len(clear_state_ast) = 3
    /\ Len(clear_state_ast[1].branch.nodes) = 2

-----------------------------------------------------------------------------
(* wrap_handler on its own, for handlers of every shape *)

WrapHandlers ==
    {ExprHandler(t, r) : t \in {"none", "uint64"}, r \in BOOLEAN}
    \cup {SubroutineHandler("f", t, n) : t \in {"none", "uint64"}, n \in 0..1}
    \cup {ABIHandler("f", t, n, n) : t \in {"void", "uint64"}, n \in 0..MaxParams}
    \cup {ABIHandler("f", t, n, n - 1) : t \in {"void", "uint64"}, n \in 1..MaxParams}
    \cup {OtherHandler}

WrapInit ==
    /\ RouterFresh /\ CondIdle /\ BareIdle /\ ReturnIdle
    /\ wrap_call \in [is_method_call : BOOLEAN, handler : WrapHandlers]
    /\ wrapped = NoWrapped

\* ASTBuilder.wrap_handler(is_method_call, handler)
WrapHandler ==
    /\ wrapped = NoWrapped
    /\ wrapped' = wrap_handler(wrap_call.is_method_call, wrap_call.handler)
    /\ UNCHANGED <<routerVars, condVars, wrap_call, bareVars, method_return>>

WrapNext == WrapHandler

WrapSpec == WrapInit /\ [][WrapNext]_vars

\* the steps of a body with the given operation, in body order
StepsOf(body, op) == SelectSeq(body, LAMBDA st : st.op = op)

\* wrap_handler was called for a method and returned a body
MethodWrapped ==
    /\ wrapped # NoWrapped
    /\ wrap_call.is_method_call
    /\ wrapped.err = "none"

\* C11: for a routable method with N parameters wrap_handler builds N slots
\* if N <= 15, and if N > 15 exactly 15 slots, the first 14 being parameters
\* 1..14 and the 15th the tuple of parameters 15..N; slot i (0-based) is
\* decoded from application argument i + 1, so none above 15 is read; the
\* subroutine is called with N placeholders of the declared types in order.
C11_SlotsAndOverflowTuple ==
    /\ (wrapped # NoWrapped /\ wrap_call.is_method_call
          /\ wrap_call.handler.kind = "ABIReturnSubroutine"
          /\ wrap_call.handler.abi_args = wrap_call.handler.argument_count)
       => wrapped.err = "none"
    /\ MethodWrapped =>
        LET N == wrap_call.handler.argument_count
            decodes == StepsOf(wrapped.body, "decode")
            stores == StepsOf(wrapped.body, "store_into")
            calls == StepsOf(wrapped.body, "call")
        IN  /\ \A i \in DOMAIN decodes : decodes[i].a = (i - 1) + 1 /\ decodes[i].a <= 15
            /\ N <= 15 =>
                  /\ Len(decodes) = N
                  /\ \A i \in 1..N : decodes[i].b = <<i>>
                  /\ stores = <<>>
            /\ N > 15 =>
                  /\ Len(decodes) = 15
                  /\ \A i \in 1..14 : decodes[i].b = <<i>>
                  /\ decodes[15].b = [k \in 1..(N - 14) |-> 14 + k]
                  /\ Len(stores) = N - 14
                  /\ \A k \in 1..(N - 14) : stores[k].a = k - 1 /\ stores[k].b = <<14 + k>>
            /\ Len(calls) = 1
            /\ calls[1].b = [i \in 1..N |-> i]

C11_Witness ==
    /\ MethodWrapped
    /\ wrap_call.handler.argument_count = 17
    /\ Len(StepsOf(wrapped.body, "decode")) = 15

-----------------------------------------------------------------------------

\* after is before with one node added for signature sig under condition c
\* (none if c is the constant 0): selector-gated, with Assert(c) in front of
\* the handler unless c is the constant 1
GainsMethodNode(before, after, sig, c) ==
    /\ Len(after) = Len(before) + (IF c = Const(0) THEN 0 ELSE 1)
    /\ IsPrefix(before, after)
    /\ c # Const(0) =>
          LET node == after[Len(after)]
          IN  /\ node.condition.kind = "application_args[0] == MethodSignature"
              /\ node.condition.sig = sig
              /\ node.condition.selector = checksum4(sig)
              /\ node.branch.kind = "Seq"
              /\ node.branch.assert = (IF c = Const(1) THEN <<>> ELSE <<c>>)
              /\ node.branch.body # <<>>

\* C12: a successful add_method_handler adds to the approval builder exactly
\* one node if approval_cond() is not the constant 0 and none otherwise,
\* likewise to the clear-state builder for clear_state_cond(), and at least
\* one node in all; each node is gated by "argument 0 equals the selector",
\* without further guard for the constant 1 and with the condition asserted
\* before the handler otherwise.
C12_OneNodePerNonZeroCondition ==
    [][(last'.op = "add_method_handler" /\ last'.err = "none") =>
          /\ GainsMethodNode(approval_ast, approval_ast', last'.sig,
                             approval_cond(last'.call_configs))
          /\ GainsMethodNode(clear_state_ast, clear_state_ast', last'.sig,
                             clear_state_cond(last'.call_configs))
          /\ Len(approval_ast') + Len(clear_state_ast')
                > Len(approval_ast) + Len(clear_state_ast)]_vars

C12_Witness ==
    /\ last.op = "add_method_handler"
    /\ last.err = "none"
    /\ last.call_configs = MethodConfig(CALL, CALL, NEVER, CREATE, NEVER, NEVER)
    /\ Len(registered) = 2
    /\ approval_ast[Len(approval_ast)].branch.assert # <<>>
    /\ clear_state_ast[Len(clear_state_ast)].branch.assert = <<AppIdEq0>>

-----------------------------------------------------------------------------

AllSixALL == [f \in MethodConfigFields |-> 3]

\* nodes holds one node: the handler of sig behind its selector test alone
OneUnguardedMethodNode(nodes, sig) ==
    /\ Len(nodes) = 1
    /\ nodes[1].condition.kind = "application_args[0] == MethodSignature"
    /\ nodes[1].condition.selector = checksum4(sig)
    /\ nodes[1].branch.kind = "Seq"
    /\ nodes[1].branch.assert = <<>>

RegisteredOnce == last.op = "add_method_handler" /\ last.err = "none"

\* C13: arc4_compliant() has all six fields ALL; for it approval_cond() and
\* clear_state_cond() are both the constant 1, and approval_cond() is the
\* constant 1 only when no_op, opt_in, close_out, update_application and
\* delete_application are all ALL.  One registration with it on a Router
\* without bare calls puts in each builder one node gated by the selector
\* alone, so the clear-state builder is not empty.
C13_Arc4CompliantIsUnguarded ==
    /\ arc4_compliant = AllSixALL
    /\ (cond.of = "approval_cond" /\ cond.value = [kind |-> "int", val |-> 1])
          => \A f \in ApprovalFields : mc[f] = 3
    /\ (cond.of = "approval_cond" /\ mc = AllSixALL)
          => cond.value = [kind |-> "int", val |-> 1]
    /\ (cond.of = "clear_state_cond" /\ mc = AllSixALL)
          => cond.value = [kind |-> "int", val |-> 1]
    /\ (RegisteredOnce /\ mc = AllSixALL)
          => /\ OneUnguardedMethodNode(approval_ast, last.sig)
             /\ OneUnguardedMethodNode(clear_state_ast, last.sig)

C13_Witness ==
    /\ mc = AllSixALL
    /\ RegisteredOnce
    /\ cond.of = "approval_cond"
    /\ cond.value = [kind |-> "int", val |-> 1]
    /\ Len(clear_state_ast) = 1

-----------------------------------------------------------------------------
(* The bare-call constructions, over every shape of BareCallActions *)

ActionShapes ==
    { never, create_only(PlainExpr), call_only(PlainExpr), always(PlainExpr),
      OnCompleteAction(ApproveExpr, PlainExpr) }

AllBareCallActions ==
    {BareCallActions(no, oi, co, cs, ua, da) :
        no \in ActionShapes, oi \in ActionShapes, co \in ActionShapes,
        cs \in ActionShapes, ua \in ActionShapes, da \in ActionShapes}
    \cup BareCallChoices

BareInit ==
    /\ RouterFresh /\ CondIdle /\ WrapIdle /\ ReturnIdle
    /\ bca \in AllBareCallActions
    /\ construction = NoBuilt

ApprovalConstruction ==
    /\ bca # NoBareCalls
    /\ construction' = [of |-> "approval_construction", value |-> approval_construction(bca)]
    /\ UNCHANGED <<routerVars, condVars, wrapVars, bca, method_return>>

ClearStateConstruction ==
    /\ bca # NoBareCalls
    /\ construction' = [of |-> "clear_state_construction",
                        value |-> clear_state_construction(bca)]
    /\ UNCHANGED <<routerVars, condVars, wrapVars, bca, method_return>>

BareNext ==
    \/ ApprovalConstruction
    \/ ClearStateConstruction
    \/ RouterInit("calculator", bca)

BareSpec == BareInit /\ [][BareNext]_vars

\* an action with neither handler
NoHandlerIn(a) == a.on_call = NoHandler /\ a.on_create = NoHandler

ApprovalActionsEmpty == \A f \in ApprovalFields : NoHandlerIn(bca[f])

ApprovalConstructed == construction.of = "approval_construction"

\* C14 as stated: approval_construction() returns None exactly when all six
\* actions are empty, and a conditional tree as soon as one of the six,
\* clear_state included, is not.
C14_NoneIffAllSixEmpty ==
    ApprovalConstructed =>
        /\ construction.value.none <=> \A f \in MethodConfigFields : NoHandlerIn(bca[f])
        /\ (\E f \in MethodConfigFields : ~NoHandlerIn(bca[f]))
              => construction.value.nodes # <<>>

\* C14: approval_construction() returns None exactly when no_op, opt_in,
\* close_out, update_application and delete_application are all empty,
\* whatever clear_state holds; when one of the five is not empty it returns
\* a conditional tree of at least one node, or raises for a handler that
\* wrap_handler rejects.
C14_NoneIffFiveApprovalActionsEmpty ==
    ApprovalConstructed =>
        /\ construction.value.none <=> ApprovalActionsEmpty
        /\ ~ApprovalActionsEmpty =>
              \/ construction.value.err = "none" /\ construction.value.nodes # <<>>
              \/ construction.value.err # "none" /\ construction.value.nodes = <<>>

C14_Witness ==
    /\ ApprovalConstructed
    /\ ApprovalActionsEmpty
    /\ ~NoHandlerIn(bca.clear_state)
    /\ construction.value.none

-----------------------------------------------------------------------------

\* the signatures of the successful add_method_handler calls, in call order
RegisteredSigs == [i \in 1..Len(registered) |-> registered[i].sig]

\* some node of the builder is gated by the selector test of sig
MethodNodeIn(nodes, sig) ==
    \E i \in 1..Len(nodes) :
        /\ nodes[i].condition.kind = "application_args[0] == MethodSignature"
        /\ nodes[i].condition.sig = sig

\* C15: the contract descriptor build_program returns carries the router's
\* name and exactly the signatures of the successful add_method_handler
\* calls, each once, in registration order; no bare-call handler is in it,
\* and every signature in it has a node in the approval builder or in the
\* clear-state builder.
C15_ContractListsSuccessfulRegistrations ==
    (last.op = "build_program" /\ last.err = "none") =>
        /\ last.contract.name = router_name
        /\ last.contract.methods = RegisteredSigs
        /\ \A i \in 1..Len(last.contract.methods) :
              \/ MethodNodeIn(approval_ast, last.contract.methods[i])
              \/ MethodNodeIn(clear_state_ast, last.contract.methods[i])

-----------------------------------------------------------------------------
(* MethodReturn: construction and lowering *)

MaxVersion == 8

\* Op.log.min_version
LogMinVersion == 5

RETURN_METHOD_SELECTOR == "0x151F7C75"

\* the ABI values (instances of BaseType), by type
ABIValues ==
    {"bool", "byte", "uint8", "uint16", "uint32", "uint64", "address",
     "string", "uint64[]", "byte[4]", "(uint64,bool)", "(byte,uint64[])"}

\* arguments that are no BaseType
NonABIValues == {"Int(1)", "Bytes('a')"}

NotABIType == "Expecting an ABI type argument"

VersionTooLow == "current version is lower than log's min version"

\* arg.encode(): the bytes of the ABI encoding of the value
Encode(arg) == [kind |-> "encode", of |-> arg]

\* Log(Concat(a, b)): one log operation over the concatenation
Log(a, b) == <<[op |-> "log", payload |-> <<a, b>>]>>

\* MethodReturn(arg)
MethodReturn_init(arg) ==
    IF arg \notin ABIValues
    THEN [NoReturn EXCEPT !.stage = "rejected", !.arg = arg, !.err = NotABIType]
    ELSE [NoReturn EXCEPT !.stage = "constructed", !.arg = arg]

MethodReturn_teal_above_min(r, version) ==
    IF version <= LogMinVersion
    THEN [r EXCEPT !.stage = "lowered", !.version = version, !.err = VersionTooLow,
                   !.names_min_version = LogMinVersion]
    ELSE [r EXCEPT !.stage = "lowered", !.version = version,
                   !.teal = Log([kind |-> "bytes", of |-> RETURN_METHOD_SELECTOR],
                                Encode(r.arg))]

\* MethodReturn.__teal__(options)
MethodReturn_teal(r, version) ==
    IF version < LogMinVersion
    THEN [r EXCEPT !.stage = "lowered", !.version = version, !.err = VersionTooLow,
                   !.names_min_version = LogMinVersion]
    ELSE [r EXCEPT !.stage = "lowered", !.version = version,
                   !.teal = Log([kind |-> "bytes", of |-> RETURN_METHOD_SELECTOR],
                                Encode(r.arg))]

ReturnInit ==
    /\ RouterFresh /\ CondIdle /\ WrapIdle /\ BareIdle
    /\ method_return = NoReturn

Construct(arg) ==
    /\ method_return.stage = "none"
    /\ method_return' = MethodReturn_init(arg)
    /\ UNCHANGED <<routerVars, condVars, wrapVars, bareVars>>

Lower(version) ==
    /\ method_return.stage = "constructed"
    /\ method_return' = MethodReturn_teal(method_return, version)
    /\ UNCHANGED <<routerVars, condVars, wrapVars, bareVars>>

ReturnNext ==
    \/ \E arg \in ABIValues \cup NonABIValues : Construct(arg)
    \/ \E version \in 0..MaxVersion : Lower(version)

ReturnSpec == ReturnInit /\ [][ReturnNext]_vars

Lowered == method_return.stage = "lowered"

\* C16: lowering a MethodReturn at a version below the minimum version of
\* log fails with an error that names that minimum version; at that version
\* or above it emits exactly one log operation whose payload is the return
\* tag followed by the ABI encoding of the value, whatever the ABI type of
\* the value, and it never fails for another reason.
C16_LogOrVersionError ==
    Lowered =>
        IF method_return.version < 5
        THEN /\ method_return.err = "current version is lower than log's min version"
             /\ method_return.names_min_version = 5
             /\ method_return.teal = <<>>
        ELSE /\ method_return.err = "none"
             /\ Len(method_return.teal) = 1
             /\ method_return.teal[1].op = "log"
             /\ method_return.teal[1].payload =
                    <<[kind |-> "bytes", of |-> "0x151F7C75"],
                      [kind |-> "encode", of |-> method_return.arg]>>

C16_Witness ==
    /\ Lowered
    /\ method_return.version = 5
    /\ method_return.arg = "(byte,uint64[])"
    /\ method_return.err = "none"
    /\ Len(method_return.teal) = 1

-----------------------------------------------------------------------------

RegistryAndBuilders ==
    <<method_sig_to_selector, method_selector_to_sig, approval_ast, clear_state_ast>>

\* C17: build_program and contract_construct leave the selector table and
\* both builders as they were; a build_program that follows a build_program
\* gives the same outcome (the same error, or the same two node sequences and
\* the same descriptor), the outcome being the builders' nodes and the
\* table's signatures as they stand.
C17_BuildReadsOnly ==
    [][/\ last'.op \in {"build_program", "contract_construct"}
            => RegistryAndBuilders' = RegistryAndBuilders
       /\ (last.op = "build_program" /\ last'.op = "build_program") => last' = last
       /\ (last'.op = "build_program" /\ last'.err = "none")
            => /\ last'.approval = approval_ast
               /\ last'.clear = clear_state_ast
               /\ last'.contract.name = router_name
               /\ Len(last'.contract.methods) = Len(method_sig_to_selector)
               /\ \A i \in 1..Len(method_sig_to_selector) :
                     last'.contract.methods[i] = method_sig_to_selector[i][1]
       /\ (last'.op = "build_program" /\ last'.err # "none")
            => approval_ast = <<>> \/ clear_state_ast = <<>>]_vars

C17_Witness ==
    /\ last.op = "build_program"
    /\ last.err = "none"
    /\ Len(registered) = 2
    /\ Len(last.approval) = 3
    /\ Len(last.contract.methods) = 2

-----------------------------------------------------------------------------

\* the place of an on-completion action in the iteration
Rank(oc) ==
    CASE oc = "NoOp" -> 1
      [] oc = "OptIn" -> 2
      [] oc = "CloseOut" -> 3
      [] oc = "UpdateApplication" -> 4
      [] oc = "DeleteApplication" -> 5

OnCallGuard == [kind |-> "application_id != 0", val |-> 0]

OnCreateGuard == [kind |-> "application_id == 0", val |-> 0]

\* the place of an approval node: by action, on-call before on-create
NodeKey(node) ==
    2 * Rank(node.condition.oc) + (IF node.condition.guard = OnCallGuard THEN 0 ELSE 1)

\* the branch that runs bare-call handler f
RunsHandler(node, f) ==
    /\ node.branch.kind = "Seq"
    /\ node.branch.assert = <<>>
    /\ node.branch.body = wrap_handler(FALSE, f).body

ConstructedTree(of) ==
    /\ construction.of = of
    /\ construction.value.err = "none"
    /\ ~construction.value.none

\* the approval nodes are those of the handlers present, in iteration order
ApprovalNodesInOrder ==
    LET ns == construction.value.nodes
    IN  /\ \A i \in 1..Len(ns) :
              /\ ns[i].condition.kind = "And"
              /\ ns[i].condition.oc \in {"NoOp", "OptIn", "CloseOut",
                                         "UpdateApplication", "DeleteApplication"}
              /\ ns[i].condition.guard \in {OnCallGuard, OnCreateGuard}
              /\ RunsHandler(ns[i], IF ns[i].condition.guard = OnCallGuard
                                    THEN bca[FieldOf(ns[i].condition.oc)].on_call
                                    ELSE bca[FieldOf(ns[i].condition.oc)].on_create)
        /\ \A i, j \in 1..Len(ns) : i < j => NodeKey(ns[i]) < NodeKey(ns[j])
        /\ \A f \in ApprovalFields :
              /\ bca[f].on_call # NoHandler
                    <=> \E i \in 1..Len(ns) : /\ FieldOf(ns[i].condition.oc) = f
                                              /\ ns[i].condition.guard = OnCallGuard
              /\ bca[f].on_create # NoHandler
                    <=> \E i \in 1..Len(ns) : /\ FieldOf(ns[i].condition.oc) = f
                                              /\ ns[i].condition.guard = OnCreateGuard

\* the clear-state nodes are on-call then on-create, guarded by the
\* application id alone
ClearStateNodesInOrder ==
    LET ns == construction.value.nodes
        a == bca.clear_state
    IN  /\ Len(ns) = (IF a.on_call # NoHandler THEN 1 ELSE 0)
                     + (IF a.on_create # NoHandler THEN 1 ELSE 0)
        /\ a.on_call # NoHandler
              => ns[1].condition = OnCallGuard /\ RunsHandler(ns[1], a.on_call)
        /\ a.on_create # NoHandler
              => /\ ns[Len(ns)].condition = OnCreateGuard
                 /\ RunsHandler(ns[Len(ns)], a.on_create)

\* C18: approval_construction() emits its nodes action by action in the
\* order no-op, opt-in, close-out, update-application, delete-application,
\* for each action the on-call node (on-completion is the action and
\* application id != 0) if an on-call handler is present, then the on-create
\* node (on-completion is the action and application id = 0) if an on-create
\* handler is present; always(f) gives both handlers, call_only(f) and
\* create_only(f) one, never() none.  clear_state_construction() emits for
\* clear_state alone the on-call node guarded by application id != 0, then
\* the on-create node guarded by application id = 0, without on-completion
\* test, and returns None iff clear_state is empty.
C18_BareNodesInOrder ==
    /\ ConstructedTree("approval_construction") => ApprovalNodesInOrder
    /\ ConstructedTree("clear_state_construction") => ClearStateNodesInOrder
    /\ construction.of = "clear_state_construction"
          => (construction.value.none <=> NoHandlerIn(bca.clear_state))
    /\ always(PlainExpr) = [on_create |-> PlainExpr, on_call |-> PlainExpr]
    /\ call_only(PlainExpr) = [on_create |-> NoHandler, on_call |-> PlainExpr]
    /\ create_only(PlainExpr) = [on_create |-> PlainExpr, on_call |-> NoHandler]
    /\ never = [on_create |-> NoHandler, on_call |-> NoHandler]

C18_Witness ==
    /\ ConstructedTree("approval_construction")
    /\ bca.no_op = create_only(PlainExpr)
    /\ bca.opt_in = never
    /\ bca.close_out = always(PlainExpr)
    /\ bca.delete_application = OnCompleteAction(ApproveExpr, PlainExpr)
    /\ Len(construction.value.nodes) >= 5
    /\ construction.value.nodes[1].condition.oc = "NoOp"
    /\ construction.value.nodes[2].condition.oc = "CloseOut"
    /\ construction.value.nodes[2].condition.guard = OnCallGuard

-----------------------------------------------------------------------------

BareCallsGiven == bare_calls # [kind |-> "None"]

\* nodes is empty, or one node guarded by "no application argument"
AtMostOneBareNode(nodes) ==
    /\ Len(nodes) <= 1
    /\ \A i \in 1..Len(nodes) :
          /\ nodes[i].condition = [kind |-> "application_args.length == 0", val |-> 0]
          /\ nodes[i].branch.kind = "Cond"
          /\ nodes[i].branch.nodes # <<>>

RouterConstructed == last.op = "Router" /\ last.err = "none"

\* C19: Router construction puts at most one node in each builder, guarded
\* by "the number of application arguments is 0": the approval builder gets
\* one iff one of the no_op, opt_in, close_out, update_application,
\* delete_application bare-call actions is not empty, the clear-state builder
\* gets one iff the clear_state bare-call action is not empty; without
\* bare_calls, or with empty ones, both builders start empty, and the
\* selector table starts empty in every case.
C19_ConstructionInstallsBareNodes ==
    RouterConstructed =>
        /\ AtMostOneBareNode(approval_ast)
        /\ AtMostOneBareNode(clear_state_ast)
        /\ Len(approval_ast) = 1
              <=> (BareCallsGiven /\ \E f \in ApprovalFields : ~NoHandlerIn(bare_calls[f]))
        /\ Len(clear_state_ast) = 1
              <=> (BareCallsGiven /\ ~NoHandlerIn(bare_calls.clear_state))
        /\ method_sig_to_selector = <<>>
        /\ method_selector_to_sig = <<>>

C19_Witness ==
    /\ RouterConstructed
    /\ BareCallsGiven
    /\ \A f \in ApprovalFields : NoHandlerIn(bare_calls[f])
    /\ bare_calls.clear_state = always(PlainExpr)
    /\ approval_ast = <<>>
    /\ Len(clear_state_ast) = 1
    /\ Len(clear_state_ast[1].branch.nodes) = 2

-----------------------------------------------------------------------------

\* transactions of every on-completion value
AllTxns ==
    {Txn(n, a, oc, id) : n \in 0..MaxArgs, a \in Arg0Values,
                         oc \in OnComplete, id \in 0..MaxAppId}

ClearStateCondTaken == cond.of = "clear_state_cond"

\* C20: clear_state_cond() is a function of the clear_state field alone and
\* tests nothing but the application id: NEVER gives the constant 0, CALL
\* gives "application id != 0", CREATE gives "application id = 0", ALL gives
\* the constant 1, whatever the other five fields hold and whatever the
\* on-completion value of the transaction is.
C20_ClearStateCondOfClearStateOnly ==
    ClearStateCondTaken =>
        /\ cond.value = CASE mc.clear_state = 0 -> [kind |-> "int", val |-> 0]
                          [] mc.clear_state = 1 -> [kind |-> "application_id != 0", val |-> 0]
                          [] mc.clear_state = 2 -> [kind |-> "application_id == 0", val |-> 0]
                          [] mc.clear_state = 3 -> [kind |-> "int", val |-> 1]
        /\ \A txn \in AllTxns :
              EvalCond(cond.value, txn)
                 <=> \/ mc.clear_state = 3
                     \/ mc.clear_state = 1 /\ txn.application_id # 0
                     \/ mc.clear_state = 2 /\ txn.application_id = 0

C20_Witness ==
    /\ ClearStateCondTaken
    /\ mc.clear_state = 2
    /\ mc.no_op = 1
    /\ mc.delete_application = 3
    /\ cond.value.kind = "application_id == 0"

-----------------------------------------------------------------------------

WrapReturned == wrapped # NoWrapped /\ wrapped.err = "none"

\* positions from..to of body hold steps of operation op whose a-field
\* counts up from start
RunOf(body, from, to, op, start) ==
    \A i \in from..to : body[i].op = op /\ body[i].a = start + (i - from)

\* C21: the body wrap_handler builds for a method call is, in this order,
\* the slot decodes in slot order, the de-tuple stores in declared order
\* (present iff more than 15 parameters), the subroutine call, for a method
\* that returns a value the store of the result and then the method-return
\* log, and the accept; for a void method the accept follows the call.  Every
\* body returned ends in an accept, except the plain expression of a bare
\* call that ends control flow itself, which is returned as it is.
C21_BodyOrderEndsInApprove ==
    /\ MethodWrapped =>
          LET body == wrapped.body
              n == wrap_call.handler.argument_count
              decodes == IF n > 15 THEN 15 ELSE n
              stores == IF n > 15 THEN n - 14 ELSE 0
              call == decodes + stores + 1
          IN  /\ Len(body) = call + (IF wrap_call.handler.type_of = "void" THEN 1 ELSE 3)
              /\ RunOf(body, 1, decodes, "decode", 1)
              /\ RunOf(body, decodes + 1, decodes + stores, "store_into", 0)
              /\ body[call].op = "call"
              /\ wrap_call.handler.type_of # "void"
                    => /\ body[call + 1].op = "store_into_output"
                       /\ body[call + 2].op = "MethodReturn"
              /\ body[Len(body)].op = "Approve"
    /\ WrapReturned =>
          IF /\ ~wrap_call.is_method_call
             /\ wrap_call.handler.kind = "Expr"
             /\ wrap_call.handler.has_return
          THEN Len(wrapped.body) = 1 /\ wrapped.body[1].op = "handler"
          ELSE /\ wrapped.body[Len(wrapped.body)].op = "Approve"
               /\ Len(StepsOf(wrapped.body, "Approve")) = 1

C21_Witness ==
    /\ MethodWrapped
    /\ wrap_call.handler.argument_count = 16
    /\ wrap_call.handler.type_of = "uint64"
    /\ Len(wrapped.body) = 21
    /\ wrapped.body[19].op = "store_into_output"

-----------------------------------------------------------------------------

WrapCalled == wrapped # NoWrapped

\* the handlers a bare call may have
BareCallAcceptable(h) ==
    \/ h.kind = "Expr" /\ h.type_of = "none"
    \/ h.kind = "SubroutineFnWrapper" /\ h.type_of = "none" /\ h.argument_count = 0
    \/ h.kind = "ABIReturnSubroutine" /\ h.type_of = "void" /\ h.argument_count = 0

\* the error that names the constraint a bare-call handler violates, the
\* return type before the argument count
BareCallViolation(h) ==
    CASE h.kind = "Expr" -> "bare appcall handler should be TealType.none"
      [] h.kind = "SubroutineFnWrapper" /\ h.type_of # "none" ->
            "subroutine call should be returning TealType.none"
      [] h.kind = "SubroutineFnWrapper" /\ h.type_of = "none" ->
            "subroutine call should take 0 arg for bare-app call"
      [] h.kind = "ABIReturnSubroutine" /\ h.type_of # "void" ->
            "abi-returning subroutine call should be returning void"
      [] h.kind = "ABIReturnSubroutine" /\ h.type_of = "void" ->
            "abi-returning subroutine call should take 0 arg for bare-app call"
      [] OTHER -> "bare appcall can only accept: none type Expr, or Subroutine/ABIReturnSubroutine with none return and no arg"

\* C22: for a bare call wrap_handler accepts exactly a plain expression of
\* type none, a subroutine of type none without argument, and a typed
\* subroutine returning void without parameter; any other handler fails with
\* the error of the constraint it violates, the return type being checked
\* before the argument count.  For a method call it fails for every handler
\* that is not a typed subroutine or is not routable, and only for those.
C22_BareCallHandlerConstraints ==
    /\ (WrapCalled /\ ~wrap_call.is_method_call) =>
          /\ wrapped.err = "none" <=> BareCallAcceptable(wrap_call.handler)
          /\ ~BareCallAcceptable(wrap_call.handler)
                => wrapped.err = BareCallViolation(wrap_call.handler)
    /\ (WrapCalled /\ wrap_call.is_method_call) =>
          /\ wrap_call.handler.kind # "ABIReturnSubroutine"
                => wrapped.err = "method call should be only registering ABIReturnSubroutine"
          /\ (/\ wrap_call.handler.kind = "ABIReturnSubroutine"
              /\ wrap_call.handler.abi_args # wrap_call.handler.argument_count)
                => wrapped.err = "method call ABIReturnSubroutine is not routable"
          /\ (/\ wrap_call.handler.kind = "ABIReturnSubroutine"
              /\ wrap_call.handler.abi_args = wrap_call.handler.argument_count)
                => wrapped.err = "none"

C22_Witness ==
    /\ WrapCalled
    /\ ~wrap_call.is_method_call
    /\ wrap_call.handler.kind = "SubroutineFnWrapper"
    /\ wrap_call.handler.type_of = "uint64"
    /\ wrap_call.handler.argument_count = 1
    /\ wrapped.err = "subroutine call should be returning TealType.none"

-----------------------------------------------------------------------------
(* Running a built tree on a transaction *)

\* what a program does with a transaction: the node taken (0 if none), and
\* whether a handler runs or the program rejects, and why
Ran(node) == [node |-> node, result |-> "handler runs", why |-> "none"]

Rejected(node, why) == [node |-> node, result |-> "rejected", why |-> why]

\* Cond: the first node whose condition holds, 0 if none holds
FirstMatching(nodes, txn) ==
    IF \A i \in 1..Len(nodes) : ~EvalCond(nodes[i].condition, txn) THEN 0
    ELSE CHOOSE i \in 1..Len(nodes) :
            /\ EvalCond(nodes[i].condition, txn)
            /\ \A j \in 1..(i - 1) : ~EvalCond(nodes[j].condition, txn)

\* Seq(Assert(cond), handler), a handler alone, or the Cond of the bare calls
RunBranch(i, branch, txn) ==
    IF branch.kind = "Seq"
    THEN IF branch.assert # <<>> /\ ~EvalCond(branch.assert[1], txn)
         THEN Rejected(i, "Assert")
         ELSE Ran(i)
    ELSE IF FirstMatching(branch.nodes, txn) = 0
         THEN Rejected(i, "no condition holds")
         ELSE Ran(i)

RunTree(nodes, txn) ==
    IF FirstMatching(nodes, txn) = 0
    THEN Rejected(0, "no condition holds")
    ELSE RunBranch(FirstMatching(nodes, txn), nodes[FirstMatching(nodes, txn)].branch, txn)

\* txn carries the selector of sig as application argument 0
Selects(txn, sig) == txn.num_app_args > 0 /\ txn.arg0 = checksum4(sig)

\* the program rejects txn by the assertion in the branch of sig's node
RejectedInBranchOf(nodes, txn, sig) ==
    /\ RunTree(nodes, txn).result = "rejected"
    /\ RunTree(nodes, txn).why = "Assert"
    /\ RunTree(nodes, txn).node \in 1..Len(nodes)
    /\ nodes[RunTree(nodes, txn).node].condition.kind = "application_args[0] == MethodSignature"
    /\ nodes[RunTree(nodes, txn).node].condition.sig = sig

\* C23: a transaction whose application argument 0 is the selector of a
\* registered method, and for which the method's condition (approval_cond in
\* the approval tree, clear_state_cond in the clear-state tree) is not a
\* constant and is false, is rejected by the assertion in that method's
\* branch: it reaches no later node and no handler runs for it.
C23_GuardAssertRejects ==
    \A k \in 1..Len(registered) :
        /\ \A txn \in ApprovalTxns :
              (/\ Selects(txn, registered[k].sig)
               /\ IsExpr(approval_cond(registered[k].call_configs))
               /\ ~EvalCond(approval_cond(registered[k].call_configs), txn))
                 => RejectedInBranchOf(approval_ast, txn, registered[k].sig)
        /\ \A txn \in ClearStateTxns :
              (/\ Selects(txn, registered[k].sig)
               /\ IsExpr(clear_state_cond(registered[k].call_configs))
               /\ ~EvalCond(clear_state_cond(registered[k].call_configs), txn))
                 => RejectedInBranchOf(clear_state_ast, txn, registered[k].sig)

C23_Witness ==
    /\ Len(registered) = 2
    /\ Len(approval_ast) = 3
    /\ IsExpr(approval_cond(registered[2].call_configs))
    /\ \E txn \in ApprovalTxns :
          /\ Selects(txn, registered[2].sig)
          /\ ~EvalCond(approval_cond(registered[2].call_configs), txn)
          /\ RunTree(approval_ast, txn) = Rejected(3, "Assert")

====
